---- MODULE Spec2Model ----
(***************************************************************************)
(* Native dependency validation and installation of playwright-core        *)
(* (validateDependenciesLinux / validateDependenciesWindows /              *)
(* installDependenciesLinux / installDependenciesWindows and helpers).     *)
(*                                                                         *)
(* JavaScript strings are modelled as sequences of one-character strings,  *)
(* so that trim / split / includes / endsWith / toLowerCase are computed   *)
(* character by character as the code computes them.                       *)
(***************************************************************************)
EXTENDS Integers, Sequences, FiniteSets, TLC

(***************************************************************************)
(* String literals                                                         *)
(***************************************************************************)
\* "not found"
S_NotFound ==
    <<"n", "o", "t", " ", "f", "o", "u", "n", "d">>
\* "=>"
S_Arrow ==
    <<"=", ">">>
\* "\n"
S_NL ==
    <<"\n">>
\* " "
S_SP ==
    <<" ">>
\* "\""
S_DQ ==
    <<"\"">>
\* "."
S_Dot ==
    <<".">>
\* "/"
S_Slash ==
    <<"/">>
\* ".so"
S_DotSo ==
    <<".", "s", "o">>
\* ".so."
S_DotSoDot ==
    <<".", "s", "o", ".">>
\* ".dll"
S_DotDll ==
    <<".", "d", "l", "l">>
\* "libgtk-3.so.0"
S_libgtk ==
    <<"l", "i", "b", "g", "t", "k", "-", "3", ".", "s", "o", ".", "0">>
\* "LibGTK-3.so.0"
S_libgtkUpper ==
    <<"L", "i", "b", "G", "T", "K", "-", "3", ".", "s", "o", ".", "0">>
\* "libweird.so.9"
S_libweird ==
    <<"l", "i", "b", "w", "e", "i", "r", "d", ".", "s", "o", ".", "9">>
\* "libx264.so"
S_libx264 ==
    <<"l", "i", "b", "x", "2", "6", "4", ".", "s", "o">>
\* "libc.so.6"
S_libc ==
    <<"l", "i", "b", "c", ".", "s", "o", ".", "6">>
\* "/lib/libc.so.6 (0x7f)"
S_libcPath ==
    <<"/", "l", "i", "b", "/", "l", "i", "b", "c", ".", "s", "o", ".", "6", " ", "(", "0", "x", "7", "f", ")">>
\* "libgtk-3-0"
S_pkgGtk ==
    <<"l", "i", "b", "g", "t", "k", "-", "3", "-", "0">>
\* "libx264-152"
S_pkgX264 ==
    <<"l", "i", "b", "x", "2", "6", "4", "-", "1", "5", "2">>
\* "libnss3"
S_pkgNss ==
    <<"l", "i", "b", "n", "s", "s", "3">>
\* "gstreamer1.0-libav"
S_pkgGstLibav ==
    <<"g", "s", "t", "r", "e", "a", "m", "e", "r", "1", ".", "0", "-", "l", "i", "b", "a", "v">>
\* "api-ms-win-crt"
S_apiMsWinCrt ==
    <<"a", "p", "i", "-", "m", "s", "-", "w", "i", "n", "-", "c", "r", "t">>
\* "api-ms-win-crt-heap-l1-1-0.dll"
S_crtHeapDll ==
    <<"a", "p", "i", "-", "m", "s", "-", "w", "i", "n", "-", "c", "r", "t", "-", "h", "e", "a", "p", "-", "l", "1", "-", "1", "-", "0", ".", "d", "l", "l">>
\* "vcruntime140.dll"
S_vcruntime140 ==
    <<"v", "c", "r", "u", "n", "t", "i", "m", "e", "1", "4", "0", ".", "d", "l", "l">>
\* "VCRUNTIME140.dll"
S_vcruntime140Upper ==
    <<"V", "C", "R", "U", "N", "T", "I", "M", "E", "1", "4", "0", ".", "d", "l", "l">>
\* "vcruntime140_1.dll"
S_vcruntime140_1 ==
    <<"v", "c", "r", "u", "n", "t", "i", "m", "e", "1", "4", "0", "_", "1", ".", "d", "l", "l">>
\* "msvcp140.dll"
S_msvcp140 ==
    <<"m", "s", "v", "c", "p", "1", "4", "0", ".", "d", "l", "l">>
\* "mf.dll"
S_mf ==
    <<"m", "f", ".", "d", "l", "l">>
\* "MF.DLL"
S_mfUpper ==
    <<"M", "F", ".", "D", "L", "L">>
\* "mfplat.dll"
S_mfplat ==
    <<"m", "f", "p", "l", "a", "t", ".", "d", "l", "l">>
\* "msmpeg2vdec.dll"
S_msmpeg2vdec ==
    <<"m", "s", "m", "p", "e", "g", "2", "v", "d", "e", "c", ".", "d", "l", "l">>
\* "evr.dll"
S_evr ==
    <<"e", "v", "r", ".", "d", "l", "l">>
\* "avrt.dll"
S_avrt ==
    <<"a", "v", "r", "t", ".", "d", "l", "l">>
\* "foo.dll"
S_fooDll ==
    <<"f", "o", "o", ".", "d", "l", "l">>
\* "app"
S_app ==
    <<"a", "p", "p">>
\* "lib.so.1"
S_libSo1 ==
    <<"l", "i", "b", ".", "s", "o", ".", "1">>
\* "readme.txt"
S_readme ==
    <<"r", "e", "a", "d", "m", "e", ".", "t", "x", "t">>
\* "sub"
S_sub ==
    <<"s", "u", "b">>
\* "Helper.DLL"
S_HelperDLL ==
    <<"H", "e", "l", "p", "e", "r", ".", "D", "L", "L">>
\* "/opt/a"
S_dirA ==
    <<"/", "o", "p", "t", "/", "a">>
\* "/opt/my b"
S_dirB ==
    <<"/", "o", "p", "t", "/", "m", "y", " ", "b">>
\* "powershell.exe"
S_powershell ==
    <<"p", "o", "w", "e", "r", "s", "h", "e", "l", "l", ".", "e", "x", "e">>
\* "-ExecutionPolicy"
S_ExecutionPolicy ==
    <<"-", "E", "x", "e", "c", "u", "t", "i", "o", "n", "P", "o", "l", "i", "c", "y">>
\* "Bypass"
S_Bypass ==
    <<"B", "y", "p", "a", "s", "s">>
\* "-File"
S_File ==
    <<"-", "F", "i", "l", "e">>
\* "install_media_pack.ps1"
S_installMediaPack ==
    <<"i", "n", "s", "t", "a", "l", "l", "_", "m", "e", "d", "i", "a", "_", "p", "a", "c", "k", ".", "p", "s", "1">>
\* "apt-get update"
S_aptGetUpdate ==
    <<"a", "p", "t", "-", "g", "e", "t", " ", "u", "p", "d", "a", "t", "e">>
\* "apt-get"
S_aptGet ==
    <<"a", "p", "t", "-", "g", "e", "t">>
\* "install"
S_install ==
    <<"i", "n", "s", "t", "a", "l", "l">>
\* "-y"
S_y ==
    <<"-", "y">>
\* "--no-install-recommends"
S_noInstallRecommends ==
    <<"-", "-", "n", "o", "-", "i", "n", "s", "t", "a", "l", "l", "-", "r", "e", "c", "o", "m", "m", "e", "n", "d", "s">>
\* "apt-get install "
S_aptGetInstall ==
    <<"a", "p", "t", "-", "g", "e", "t", " ", "i", "n", "s", "t", "a", "l", "l", " ">>
\* "sudo "
S_sudoSp ==
    <<"s", "u", "d", "o", " ">>
\* "C:\\pw\\bin"
S_winBin ==
    <<"C", ":", "\\", "p", "w", "\\", "b", "i", "n">>
\* "C:\\Program Files\\pw\\bin"
S_winBinSpace ==
    <<"C", ":", "\\", "P", "r", "o", "g", "r", "a", "m", " ", "F", "i", "l", "e", "s", "\\", "p", "w", "\\", "b", "i", "n">>
\* "\\"
S_Backslash ==
    <<"\\">>
\* "6.1.7601"
S_rel61 ==
    <<"6", ".", "1", ".", "7", "6", "0", "1">>
\* "6.2.9200"
S_rel62 ==
    <<"6", ".", "2", ".", "9", "2", "0", "0">>
\* "10.0.19041"
S_rel100 ==
    <<"1", "0", ".", "0", ".", "1", "9", "0", "4", "1">>
\* "5.2.3790"
S_rel52 ==
    <<"5", ".", "2", ".", "3", "7", "9", "0">>
\* ""
S_Empty ==
    <<>>
\* "0123456789"
S_Digits ==
    <<"0", "1", "2", "3", "4", "5", "6", "7", "8", "9">>
\* "x64"
S_x64 ==
    <<"x", "6", "4">>
\* "ia32"
S_ia32 ==
    <<"i", "a", "3", "2">>
\* "sh"
S_sh ==
    <<"s", "h">>
\* "-c"
S_dashC ==
    <<"-", "c">>
\* "sudo"
S_sudo ==
    <<"s", "u", "d", "o">>
\* "--"
S_dashDash ==
    <<"-", "-">>
\* "su"
S_su ==
    <<"s", "u">>
\* "root"
S_root ==
    <<"r", "o", "o", "t">>
\* "&& "
S_AndAnd ==
    <<"&", "&", " ">>
\* "npx playwright "
S_npxPlaywright ==
    <<"n", "p", "x", " ", "p", "l", "a", "y", "w", "r", "i", "g", "h", "t", " ">>
\* "playwright "
S_playwright ==
    <<"p", "l", "a", "y", "w", "r", "i", "g", "h", "t", " ">>
\* "install-deps"
S_installDeps ==
    <<"i", "n", "s", "t", "a", "l", "l", "-", "d", "e", "p", "s">>
\* "javascript"
S_javascript ==
    <<"j", "a", "v", "a", "s", "c", "r", "i", "p", "t">>
\* "python"
S_python ==
    <<"p", "y", "t", "h", "o", "n">>
\* "Installing Ubuntu dependencies..."
S_InstallingUbuntu ==
    <<"I", "n", "s", "t", "a", "l", "l", "i", "n", "g", " ", "U", "b", "u", "n", "t", "u", " ", "d", "e", "p", "e", "n", "d", "e", "n", "c", "i", "e", "s", ".", ".", ".">>
\* "Switching to root user to install dependencies..."
S_SwitchingToRoot ==
    <<"S", "w", "i", "t", "c", "h", "i", "n", "g", " ", "t", "o", " ", "r", "o", "o", "t", " ", "u", "s", "e", "r", " ", "t", "o", " ", "i", "n", "s", "t", "a", "l", "l", " ", "d", "e", "p", "e", "n", "d", "e", "n", "c", "i", "e", "s", ".", ".", ".">>
\* "Cannot install dependencies for this linux distribution!"
S_CannotInstall ==
    <<"C", "a", "n", "n", "o", "t", " ", "i", "n", "s", "t", "a", "l", "l", " ", "d", "e", "p", "e", "n", "d", "e", "n", "c", "i", "e", "s", " ", "f", "o", "r", " ", "t", "h", "i", "s", " ", "l", "i", "n", "u", "x", " ", "d", "i", "s", "t", "r", "i", "b", "u", "t", "i", "o", "n", "!">>
\* "Failed to install windows dependencies!"
S_FailedWindows ==
    <<"F", "a", "i", "l", "e", "d", " ", "t", "o", " ", "i", "n", "s", "t", "a", "l", "l", " ", "w", "i", "n", "d", "o", "w", "s", " ", "d", "e", "p", "e", "n", "d", "e", "n", "c", "i", "e", "s", "!">>
\* "TypeError: info[target] is not iterable"
S_TypeErrorSpread ==
    <<"T", "y", "p", "e", "E", "r", "r", "o", "r", ":", " ", "i", "n", "f", "o", "[", "t", "a", "r", "g", "e", "t", "]", " ", "i", "s", " ", "n", "o", "t", " ", "i", "t", "e", "r", "a", "b", "l", "e">>
\* "Host system is missing a few dependencies to run browsers."
S_HostFew ==
    <<"H", "o", "s", "t", " ", "s", "y", "s", "t", "e", "m", " ", "i", "s", " ", "m", "i", "s", "s", "i", "n", "g", " ", "a", " ", "f", "e", "w", " ", "d", "e", "p", "e", "n", "d", "e", "n", "c", "i", "e", "s", " ", "t", "o", " ", "r", "u", "n", " ", "b", "r", "o", "w", "s", "e", "r", "s", ".">>
\* "Please install them with the following command:"
S_PleaseInstall ==
    <<"P", "l", "e", "a", "s", "e", " ", "i", "n", "s", "t", "a", "l", "l", " ", "t", "h", "e", "m", " ", "w", "i", "t", "h", " ", "t", "h", "e", " ", "f", "o", "l", "l", "o", "w", "i", "n", "g", " ", "c", "o", "m", "m", "a", "n", "d", ":">>
\* "    "
S_Indent4 ==
    <<" ", " ", " ", " ">>
\* "      "
S_Indent6 ==
    <<" ", " ", " ", " ", " ", " ">>
\* "  "
S_Indent2 ==
    <<" ", " ">>
\* "<3 Playwright Team"
S_Team ==
    <<"<", "3", " ", "P", "l", "a", "y", "w", "r", "i", "g", "h", "t", " ", "T", "e", "a", "m">>
\* "  Install missing packages with:"
S_InstallMissingWith ==
    <<" ", " ", "I", "n", "s", "t", "a", "l", "l", " ", "m", "i", "s", "s", "i", "n", "g", " ", "p", "a", "c", "k", "a", "g", "e", "s", " ", "w", "i", "t", "h", ":">>
\* "\\\n          "
S_PkgSep ==
    <<"\\", "\n", " ", " ", " ", " ", " ", " ", " ", " ", " ", " ">>
\* "\n      "
S_DepSep ==
    <<"\n", " ", " ", " ", " ", " ", " ">>
\* "Missing libraries we didn't find packages for:"
S_HeaderNoPackages ==
    <<"M", "i", "s", "s", "i", "n", "g", " ", "l", "i", "b", "r", "a", "r", "i", "e", "s", " ", "w", "e", " ", "d", "i", "d", "n", "'", "t", " ", "f", "i", "n", "d", " ", "p", "a", "c", "k", "a", "g", "e", "s", " ", "f", "o", "r", ":">>
\* "Missing libraries are:"
S_HeaderPlain ==
    <<"M", "i", "s", "s", "i", "n", "g", " ", "l", "i", "b", "r", "a", "r", "i", "e", "s", " ", "a", "r", "e", ":">>
\* "Host system is missing dependencies!\n\n"
S_HostMissing ==
    <<"H", "o", "s", "t", " ", "s", "y", "s", "t", "e", "m", " ", "i", "s", " ", "m", "i", "s", "s", "i", "n", "g", " ", "d", "e", "p", "e", "n", "d", "e", "n", "c", "i", "e", "s", "!", "\n", "\n">>
\* "Some of the Universal C Runtime files cannot be found on the system. You can fix"
S_Crt1 ==
    <<"S", "o", "m", "e", " ", "o", "f", " ", "t", "h", "e", " ", "U", "n", "i", "v", "e", "r", "s", "a", "l", " ", "C", " ", "R", "u", "n", "t", "i", "m", "e", " ", "f", "i", "l", "e", "s", " ", "c", "a", "n", "n", "o", "t", " ", "b", "e", " ", "f", "o", "u", "n", "d", " ", "o", "n", " ", "t", "h", "e", " ", "s", "y", "s", "t", "e", "m", ".", " ", "Y", "o", "u", " ", "c", "a", "n", " ", "f", "i", "x">>
\* "that by installing Microsoft Visual C++ Redistributable for Visual Studio from:"
S_Crt2 ==
    <<"t", "h", "a", "t", " ", "b", "y", " ", "i", "n", "s", "t", "a", "l", "l", "i", "n", "g", " ", "M", "i", "c", "r", "o", "s", "o", "f", "t", " ", "V", "i", "s", "u", "a", "l", " ", "C", "+", "+", " ", "R", "e", "d", "i", "s", "t", "r", "i", "b", "u", "t", "a", "b", "l", "e", " ", "f", "o", "r", " ", "V", "i", "s", "u", "a", "l", " ", "S", "t", "u", "d", "i", "o", " ", "f", "r", "o", "m", ":">>
\* "https://support.microsoft.com/en-us/help/2977003/the-latest-supported-visual-c-downloads"
S_Crt3 ==
    <<"h", "t", "t", "p", "s", ":", "/", "/", "s", "u", "p", "p", "o", "r", "t", ".", "m", "i", "c", "r", "o", "s", "o", "f", "t", ".", "c", "o", "m", "/", "e", "n", "-", "u", "s", "/", "h", "e", "l", "p", "/", "2", "9", "7", "7", "0", "0", "3", "/", "t", "h", "e", "-", "l", "a", "t", "e", "s", "t", "-", "s", "u", "p", "p", "o", "r", "t", "e", "d", "-", "v", "i", "s", "u", "a", "l", "-", "c", "-", "d", "o", "w", "n", "l", "o", "a", "d", "s">>
\* "Some of the Media Foundation files cannot be found on the system. If you are"
S_Mf1 ==
    <<"S", "o", "m", "e", " ", "o", "f", " ", "t", "h", "e", " ", "M", "e", "d", "i", "a", " ", "F", "o", "u", "n", "d", "a", "t", "i", "o", "n", " ", "f", "i", "l", "e", "s", " ", "c", "a", "n", "n", "o", "t", " ", "b", "e", " ", "f", "o", "u", "n", "d", " ", "o", "n", " ", "t", "h", "e", " ", "s", "y", "s", "t", "e", "m", ".", " ", "I", "f", " ", "y", "o", "u", " ", "a", "r", "e">>
\* "on Windows Server try fixing this by running the following command in PowerShell"
S_Mf2 ==
    <<"o", "n", " ", "W", "i", "n", "d", "o", "w", "s", " ", "S", "e", "r", "v", "e", "r", " ", "t", "r", "y", " ", "f", "i", "x", "i", "n", "g", " ", "t", "h", "i", "s", " ", "b", "y", " ", "r", "u", "n", "n", "i", "n", "g", " ", "t", "h", "e", " ", "f", "o", "l", "l", "o", "w", "i", "n", "g", " ", "c", "o", "m", "m", "a", "n", "d", " ", "i", "n", " ", "P", "o", "w", "e", "r", "S", "h", "e", "l", "l">>
\* "as Administrator:"
S_Mf3 ==
    <<"a", "s", " ", "A", "d", "m", "i", "n", "i", "s", "t", "r", "a", "t", "o", "r", ":">>
\* "    Install-WindowsFeature Server-Media-Foundation"
S_Mf4 ==
    <<" ", " ", " ", " ", "I", "n", "s", "t", "a", "l", "l", "-", "W", "i", "n", "d", "o", "w", "s", "F", "e", "a", "t", "u", "r", "e", " ", "S", "e", "r", "v", "e", "r", "-", "M", "e", "d", "i", "a", "-", "F", "o", "u", "n", "d", "a", "t", "i", "o", "n">>
\* "For Windows N editions visit:"
S_Mf5 ==
    <<"F", "o", "r", " ", "W", "i", "n", "d", "o", "w", "s", " ", "N", " ", "e", "d", "i", "t", "i", "o", "n", "s", " ", "v", "i", "s", "i", "t", ":">>
\* "https://support.microsoft.com/en-us/help/3145500/media-feature-pack-list-for-windows-n-editions"
S_Mf6 ==
    <<"h", "t", "t", "p", "s", ":", "/", "/", "s", "u", "p", "p", "o", "r", "t", ".", "m", "i", "c", "r", "o", "s", "o", "f", "t", ".", "c", "o", "m", "/", "e", "n", "-", "u", "s", "/", "h", "e", "l", "p", "/", "3", "1", "4", "5", "5", "0", "0", "/", "m", "e", "d", "i", "a", "-", "f", "e", "a", "t", "u", "r", "e", "-", "p", "a", "c", "k", "-", "l", "i", "s", "t", "-", "f", "o", "r", "-", "w", "i", "n", "d", "o", "w", "s", "-", "n", "-", "e", "d", "i", "t", "i", "o", "n", "s">>
\* "Full list of missing libraries:"
S_FullList ==
    <<"F", "u", "l", "l", " ", "l", "i", "s", "t", " ", "o", "f", " ", "m", "i", "s", "s", "i", "n", "g", " ", "l", "i", "b", "r", "a", "r", "i", "e", "s", ":">>
\* "\n    "
S_WinDepSep ==
    <<"\n", " ", " ", " ", " ">>
\* "WARNING: running on unsupported windows version!"
S_WarnUnsupported ==
    <<"W", "A", "R", "N", "I", "N", "G", ":", " ", "r", "u", "n", "n", "i", "n", "g", " ", "o", "n", " ", "u", "n", "s", "u", "p", "p", "o", "r", "t", "e", "d", " ", "w", "i", "n", "d", "o", "w", "s", " ", "v", "e", "r", "s", "i", "o", "n", "!">>
\* "EIO"
S_EIO ==
    <<"E", "I", "O">>
\* "ENOENT"
S_ENOENT ==
    <<"E", "N", "O", "E", "N", "T">>
\* "EACCES"
S_EACCES ==
    <<"E", "A", "C", "C", "E", "S">>

(***************************************************************************)
(* Bounds of the model                                                     *)
(***************************************************************************)
\* largest number of directories a caller passes to validation
MaxDirs ==
    2
\* largest number of pieces an introspection-tool output is composed of (SpecParse)
MaxPieces ==
    3

(***************************************************************************)
(* JavaScript string and array primitives                                  *)
(***************************************************************************)
Range(s) ==
    {s[i] : i \in 1..Len(s)}

Min(S) ==
    CHOOSE x \in S : \A y \in S : x <= y

\* String.prototype.trim strips these
WhiteSpace ==
    {" ", "\t", "\n", "\r"}

UpperToLower ==
    ("A" :> "a") @@ ("B" :> "b") @@ ("C" :> "c") @@ ("D" :> "d") @@ ("E" :> "e") @@
    ("F" :> "f") @@ ("G" :> "g") @@ ("H" :> "h") @@ ("I" :> "i") @@ ("J" :> "j") @@
    ("K" :> "k") @@ ("L" :> "l") @@ ("M" :> "m") @@ ("N" :> "n") @@ ("O" :> "o") @@
    ("P" :> "p") @@ ("Q" :> "q") @@ ("R" :> "r") @@ ("S" :> "s") @@ ("T" :> "t") @@
    ("U" :> "u") @@ ("V" :> "v") @@ ("W" :> "w") @@ ("X" :> "x") @@ ("Y" :> "y") @@
    ("Z" :> "z")

toLowerCase(s) ==
    [i \in 1..Len(s) |-> IF s[i] \in DOMAIN UpperToLower THEN UpperToLower[s[i]] ELSE s[i]]

\* position of the first occurrence of sub in s, 0 when there is none
indexOf(s, sub) ==
    LET at == {k \in 1..(Len(s) - Len(sub) + 1) :
                  \A j \in 1..Len(sub) : s[k + j - 1] = sub[j]}
    IN  IF at = {} THEN 0 ELSE Min(at)

includes(s, sub) ==
    indexOf(s, sub) # 0

startsWith(s, sub) ==
    Len(sub) <= Len(s) /\ SubSeq(s, 1, Len(sub)) = sub

endsWith(s, sub) ==
    Len(sub) <= Len(s) /\ SubSeq(s, Len(s) - Len(sub) + 1, Len(s)) = sub

trim(s) ==
    LET keep == {i \in 1..Len(s) : s[i] \notin WhiteSpace}
    IN  IF keep = {} THEN <<>>
        ELSE SubSeq(s, Min(keep), CHOOSE j \in keep : \A k \in keep : k <= j)

RECURSIVE split(_, _)
\* String.prototype.split with a non-empty separator
split(s, sep) ==
    LET k == indexOf(s, sep)
    IN  IF k = 0 THEN <<s>>
        ELSE <<SubSeq(s, 1, k - 1)>> \o split(SubSeq(s, k + Len(sep), Len(s)), sep)

RECURSIVE join(_, _)
\* Array.prototype.join
join(parts, sep) ==
    IF parts = <<>> THEN <<>>
    ELSE IF Len(parts) = 1 THEN parts[1]
    ELSE parts[1] \o sep \o join(Tail(parts), sep)

RECURSIVE filterSeq(_, _)
\* Array.prototype.filter with the predicate given as a set of kept values
filterSeq(xs, keep) ==
    IF xs = <<>> THEN <<>>
    ELSE (IF xs[1] \in keep THEN <<xs[1]>> ELSE <<>>) \o filterSeq(Tail(xs), keep)

\* Set.prototype.add: a JavaScript Set keeps insertion order and ignores duplicates
setAdd(set, x) ==
    IF x \in Range(set) THEN set ELSE Append(set, x)

RECURSIVE setAddAll(_, _)
setAddAll(set, xs) ==
    IF xs = <<>> THEN set ELSE setAddAll(setAdd(set, xs[1]), Tail(xs))

\* Set.prototype.delete
setDelete(set, x) ==
    filterSeq(set, Range(set) \ {x})

RECURSIVE flatten(_)
flatten(xss) ==
    IF xss = <<>> THEN <<>> ELSE xss[1] \o flatten(Tail(xss))

(***************************************************************************)
(* Probe output parsing                                                    *)
(***************************************************************************)
\* missingLines without the test for the separator
missingLinesWithoutSeparatorTest(stdout) ==
    LET raw == split(stdout, S_NL)
        lines == [i \in 1..Len(raw) |-> trim(raw[i])]
    IN  filterSeq(lines, {l \in Range(lines) : endsWith(l, S_NotFound)})

\* the lines of a tool output that report an unresolved dependency
missingLines(stdout) ==
    LET raw == split(stdout, S_NL)
        lines == [i \in 1..Len(raw) |-> trim(raw[i])]
    IN  filterSeq(lines, {l \in Range(lines) : endsWith(l, S_NotFound) /\ includes(l, S_Arrow)})

\* missingFileDependencies without the test of the exit code
missingFileDependenciesIgnoringCode(code, stdout) ==
    LET missing == missingLines(stdout)
    IN  [i \in 1..Len(missing) |-> trim(split(missing[i], S_Arrow)[1])]

\* missingFileDependencies: what the Linux prober returns for one run of ldd
missingFileDependencies(code, stdout) ==
    IF code # 0 THEN <<>>
    ELSE LET missing == missingLines(stdout)
         IN  [i \in 1..Len(missing) |-> trim(split(missing[i], S_Arrow)[1])]

\* missingFileDependenciesWindows: what the Windows prober returns for one run of PrintDeps.exe
missingFileDependenciesWindows(code, stdout) ==
    IF code # 0 THEN <<>>
    ELSE LET missing == missingLines(stdout)
         IN  [i \in 1..Len(missing) |-> toLowerCase(trim(split(missing[i], S_Arrow)[1]))]

\* missingDLOPENLibraries with the filter inverted
missingDLOPENLibrariesInverted(libraries, code, error, stdout) ==
    IF libraries = <<>> THEN <<>>
    ELSE IF code # 0 \/ error THEN <<>>
    ELSE filterSeq(libraries,
             {l \in Range(libraries) : includes(toLowerCase(stdout), toLowerCase(l))})

\* missingDLOPENLibraries that compares without lower-casing either side
missingDLOPENLibrariesCaseSensitive(libraries, code, error, stdout) ==
    IF libraries = <<>> THEN <<>>
    ELSE IF code # 0 \/ error THEN <<>>
    ELSE filterSeq(libraries, {l \in Range(libraries) : ~includes(stdout, l)})

\* missingDLOPENLibraries, given what /sbin/ldconfig -p answered
missingDLOPENLibraries(libraries, code, error, stdout) ==
    IF libraries = <<>> THEN <<>>
    ELSE IF code # 0 \/ error THEN <<>>
    ELSE filterSeq(libraries,
             {l \in Range(libraries) : ~includes(toLowerCase(stdout), toLowerCase(l))})

\* quoteProcessArgs that quotes nothing
quoteProcessArgsNever(args) ==
    args

\* quoteProcessArgs
quoteProcessArgs(args) ==
    [i \in 1..Len(args) |-> IF includes(args[i], S_SP) THEN S_DQ \o args[i] \o S_DQ ELSE args[i]]

(***************************************************************************)
(* Host environment and catalog (deps of nativeDeps)                       *)
(***************************************************************************)
DependencyGroup ==
    {"chromium", "firefox", "webkit", "tools"}

\* result of parseInt for a token without leading digits, and of reading a missing token
NaN ==
    -1

RECURSIVE digitsValue(_, _)
digitsValue(token, acc) ==
    IF token = <<>> \/ token[1] \notin Range(S_Digits) THEN acc
    ELSE digitsValue(Tail(token), 10 * acc + (indexOf(S_Digits, <<token[1]>>) - 1))

\* parseInt(token, 10) on an unsigned token
parseInt(token) ==
    IF token = <<>> \/ token[1] \notin Range(S_Digits) THEN NaN ELSE digitsValue(token, 0)

\* JavaScript > on numbers: false as soon as one side is NaN or undefined
jsGreater(a, b) ==
    a # NaN /\ b # NaN /\ a > b

\* isSupportedWindowsVersion with the floor at 6.1 instead of above it
isSupportedWindowsVersionFrom61(osPlatform, osArch, osRelease) ==
    IF osPlatform # "win32" \/ osArch # S_x64 THEN FALSE
    ELSE LET tokens == split(osRelease, S_Dot)
             major  == parseInt(tokens[1])
             minor  == IF Len(tokens) >= 2 THEN parseInt(tokens[2]) ELSE NaN
         IN  jsGreater(major, 6) \/ (major = 6 /\ jsGreater(minor, 0))

\* isSupportedWindowsVersion
isSupportedWindowsVersion(osPlatform, osArch, osRelease) ==
    IF osPlatform # "win32" \/ osArch # S_x64 THEN FALSE
    ELSE LET tokens == split(osRelease, S_Dot)
             major  == parseInt(tokens[1])
             minor  == IF Len(tokens) >= 2 THEN parseInt(tokens[2]) ELSE NaN
         IN  jsGreater(major, 6) \/ (major = 6 /\ jsGreater(minor, 1))

\* MANUAL_LIBRARY_TO_PACKAGE_NAME_UBUNTU
MANUAL_LIBRARY_TO_PACKAGE_NAME_UBUNTU ==
    (S_libx264 :> S_pkgGstLibav)

\* deps[utils.hostPlatform] for a distribution the catalog does not know
NoInfo ==
    [present |-> FALSE, groups |-> <<>>, hasLib2package |-> FALSE, lib2package |-> <<>>]

\* a catalog entry with every group and a library-to-package table
FullInfo ==
    [present |-> TRUE,
     groups |-> ("chromium" :> <<S_pkgNss, S_pkgGtk>>) @@ ("firefox" :> <<S_pkgGtk>>) @@
                ("webkit" :> <<S_pkgGstLibav, S_pkgGtk>>) @@ ("tools" :> <<S_pkgNss>>),
     hasLib2package |-> TRUE,
     lib2package |-> (S_libgtk :> S_pkgGtk) @@ (S_libx264 :> S_pkgX264)]

\* a catalog entry that lacks the tools group and the library-to-package table
PartialInfo ==
    [present |-> TRUE,
     groups |-> ("chromium" :> <<S_pkgNss, S_pkgGtk>>) @@ ("firefox" :> <<S_pkgGtk>>) @@
                ("webkit" :> <<S_pkgGstLibav, S_pkgGtk>>),
     hasLib2package |-> FALSE,
     lib2package |-> <<>>]

Catalogs ==
    {NoInfo, FullInfo, PartialInfo}

\* obj[key] on a string-keyed object; undefined and '' are both falsy and both read <<>>
lookup(map, key) ==
    IF key \in DOMAIN map THEN map[key] ELSE <<>>

\* the mapping with the spread order exchanged: the catalog replaces the manual entries
libraryToPackageNameMappingCatalogLast(info) ==
    (IF info.present /\ info.hasLib2package THEN info.lib2package ELSE <<>>) @@
    MANUAL_LIBRARY_TO_PACKAGE_NAME_UBUNTU

\* { ...(deps[utils.hostPlatform]?.lib2package || {}), ...MANUAL_LIBRARY_TO_PACKAGE_NAME_UBUNTU }
libraryToPackageNameMapping(info) ==
    MANUAL_LIBRARY_TO_PACKAGE_NAME_UBUNTU @@
    (IF info.present /\ info.hasLib2package THEN info.lib2package ELSE <<>>)

(***************************************************************************)
(* File system seen by the scanner                                         *)
(***************************************************************************)
\* what readdir, stat and access(X_OK) answer for the entries of a directory
EntryApp ==
    [name |-> S_app, statOk |-> TRUE, isFile |-> TRUE, executable |-> TRUE]

EntryLib ==
    [name |-> S_libSo1, statOk |-> TRUE, isFile |-> TRUE, executable |-> FALSE]

EntryReadme ==
    [name |-> S_readme, statOk |-> TRUE, isFile |-> TRUE, executable |-> FALSE]

EntrySub ==
    [name |-> S_sub, statOk |-> TRUE, isFile |-> FALSE, executable |-> TRUE]

EntryHelperDll ==
    [name |-> S_HelperDLL, statOk |-> TRUE, isFile |-> TRUE, executable |-> FALSE]

EntryBroken ==
    [name |-> S_libgtk, statOk |-> FALSE, isFile |-> TRUE, executable |-> FALSE]

\* a directory listing: readdir rejects, or it returns entries of which a stat may reject
Listings ==
    {[readdirOk |-> FALSE, entries |-> <<>>],
     [readdirOk |-> TRUE, entries |-> <<>>],
     [readdirOk |-> TRUE, entries |-> <<EntryReadme, EntryApp, EntrySub>>],
     [readdirOk |-> TRUE, entries |-> <<EntryLib, EntryReadme>>],
     [readdirOk |-> TRUE, entries |-> <<EntrySub, EntryHelperDll>>],
     [readdirOk |-> TRUE, entries |-> <<EntryApp, EntryBroken>>]}

\* isSharedLib
isSharedLib(osPlatform, basename) ==
    CASE osPlatform = "linux" -> endsWith(basename, S_DotSo) \/ includes(basename, S_DotSoDot)
      [] osPlatform = "win32" -> endsWith(basename, S_DotDll)
      [] OTHER -> FALSE

\* path.resolve(directoryPath, file)
pathResolve(directoryPath, file) ==
    [dir |-> directoryPath, base |-> file]

\* the regular files among the entries that are shared libraries or executables
executablersOrLibraries(osPlatform, directoryPath, entries) ==
    LET allPaths  == [i \in 1..Len(entries) |-> pathResolve(directoryPath, entries[i].name)]
        isFileAt  == {i \in 1..Len(entries) : entries[i].isFile}
        keptAt    == {i \in isFileAt :
                         \/ isSharedLib(osPlatform, toLowerCase(allPaths[i].base))
                         \/ entries[i].executable}
        RECURSIVE pick(_)
        pick(i) == IF i > Len(entries) THEN <<>>
                   ELSE (IF i \in keptAt THEN <<allPaths[i]>> ELSE <<>>) \o pick(i + 1)
    IN  pick(1)

\* executablesOrSharedLibraries that takes an unreadable directory for an empty one and
\* leaves out the entries whose stat rejected
executablesOrSharedLibrariesSkippingFailures(osPlatform, directoryPath, listing) ==
    LET statOkAt == {i \in 1..Len(listing.entries) : listing.entries[i].statOk}
        RECURSIVE pick(_)
        pick(i) == IF i > Len(listing.entries) THEN <<>>
                   ELSE (IF i \in statOkAt THEN <<listing.entries[i]>> ELSE <<>>) \o pick(i + 1)
    IN  [rejected |-> FALSE, error |-> S_Empty,
         paths |-> executablersOrLibraries(osPlatform, directoryPath, pick(1))]

\* executablesOrSharedLibraries: rejects when readdir or any stat rejects, else resolves
\* with the candidates of the directory
executablesOrSharedLibraries(osPlatform, directoryPath, listing) ==
    IF ~listing.readdirOk
    THEN [rejected |-> TRUE, error |-> S_ENOENT, paths |-> <<>>]
    ELSE IF \E i \in 1..Len(listing.entries) : ~listing.entries[i].statOk
    THEN [rejected |-> TRUE, error |-> S_EACCES, paths |-> <<>>]
    ELSE [rejected |-> FALSE, error |-> S_Empty,
          paths |-> executablersOrLibraries(osPlatform, directoryPath, listing.entries)]

(***************************************************************************)
(* Answers of the external tools                                           *)
(***************************************************************************)
lddLine(name, resolution) ==
    <<"\t">> \o name \o S_SP \o S_Arrow \o S_SP \o resolution \o S_NL

OutNone ==
    lddLine(S_libc, S_libcPath)

OutGtk ==
    lddLine(S_libc, S_libcPath) \o lddLine(S_libgtk, S_NotFound)

OutWeird ==
    S_SP \o S_libweird \o S_SP \o S_Arrow \o S_SP \o S_NotFound \o S_SP \o S_NL

\* exit code and stdout of one run of ldd
LddRuns ==
    {[code |-> 0, stdout |-> OutNone], [code |-> 0, stdout |-> OutGtk],
     [code |-> 0, stdout |-> OutWeird], [code |-> 1, stdout |-> OutGtk]}

printDepsLine(name, resolution) ==
    S_Indent4 \o name \o S_SP \o S_Arrow \o S_SP \o resolution \o <<"\r">> \o S_NL

\* exit code and stdout of one run of PrintDeps.exe
PrintDepsRuns ==
    {[code |-> 0, stdout |-> printDepsLine(S_HelperDLL, S_winBin)],
     [code |-> 0, stdout |-> printDepsLine(S_vcruntime140Upper, S_NotFound)],
     [code |-> 0, stdout |-> printDepsLine(S_mfUpper, S_NotFound)],
     [code |-> 0, stdout |-> printDepsLine(S_fooDll, S_NotFound)],
     [code |-> 0, stdout |-> printDepsLine(S_crtHeapDll, S_NotFound)],
     [code |-> 1, stdout |-> printDepsLine(S_mfUpper, S_NotFound)]}

\* what /sbin/ldconfig -p answers; notRun stands for the call that is skipped
LdconfigNotRun ==
    [ran |-> FALSE, code |-> 0, error |-> FALSE, stdout |-> S_Empty]

LdconfigRuns ==
    {[ran |-> TRUE, code |-> 0, error |-> FALSE, stdout |-> lddLine(S_libgtkUpper, S_libcPath)],
     [ran |-> TRUE, code |-> 0, error |-> FALSE,
      stdout |-> lddLine(S_libgtk, S_libcPath) \o
                 lddLine(S_libx264 \o <<".", "1", "5", "2">>, S_libcPath)],
     [ran |-> TRUE, code |-> 1, error |-> FALSE, stdout |-> S_Empty],
     [ran |-> TRUE, code |-> 0, error |-> TRUE, stdout |-> S_Empty]}

\* the directories and libraries a caller passes to validation
DirectoryInputs ==
    {[i \in 1..n |-> IF i % 2 = 1 THEN S_dirA ELSE S_dirB] : n \in 0..MaxDirs}

DlOpenInputs ==
    {<<>>, <<S_libx264, S_libgtk>>}

\* BIN_DIRECTORY: where the package is installed
BinDirectories ==
    {S_winBin, S_winBinSpace}

SdkLanguages ==
    {S_javascript, S_python}

(***************************************************************************)
(* State                                                                   *)
(***************************************************************************)
VARIABLES
    platform,         \* os.platform()
    arch,             \* what os.arch() returned to the call, empty until it is read
    release,          \* what os.release() returned to the call, empty until it is read
    uid,              \* <<process.getuid()>>, empty until it is read
    hostInfo,         \* deps[utils.hostPlatform] of the call, undefined until it is read
    pc,               \* where the running call stands
    op,               \* the exported function that was called
    sdkLanguage,      \* argument of validateDependenciesLinux
    directoryPaths,   \* argument of validateDependencies*
    dlOpenLibraries,  \* argument of validateDependenciesLinux
    scanned,          \* number of directories scanned so far
    lddPaths,         \* candidates collected so far
    probes,           \* one record per launched probe
    ldconfig,         \* the run of /sbin/ldconfig -p made by missingDLOPENLibraries
    missingDeps,      \* the Set missingDeps, in insertion order
    missingPackages,  \* the Set missingPackages, in insertion order
    targets,          \* argument of installDependencies*, in insertion order
    dryRun,           \* argument of installDependencies*
    resolved,         \* the command and arguments the installer resolved
    spawned,          \* install processes spawned so far
    stdoutLog,        \* lines written with console.log
    warnLog,          \* lines written with console.warn
    outcome           \* how the call ended

envVars ==
    <<platform, arch, release, uid, hostInfo>>

validateVars ==
    <<sdkLanguage, directoryPaths, dlOpenLibraries, scanned, lddPaths, probes, ldconfig,
      missingDeps, missingPackages>>

installVars ==
    <<targets, dryRun, resolved, spawned>>

vars ==
    <<platform, arch, release, uid, hostInfo, pc, op, sdkLanguage,
      directoryPaths, dlOpenLibraries, scanned, lddPaths, probes, ldconfig, missingDeps,
      missingPackages, targets, dryRun, resolved, spawned, stdoutLog, warnLog, outcome>>

Pending ==
    [kind |-> "pending", message |-> S_Empty, boxed |-> FALSE]

Returned ==
    [kind |-> "returned", message |-> S_Empty, boxed |-> FALSE]

\* a rejected promise of the call: kind says which statement threw
Threw(kind, message, boxed) ==
    [kind |-> kind, message |-> message, boxed |-> boxed]

NoCommand ==
    [command |-> S_Empty, args |-> <<>>, elevatedPermissions |-> FALSE]

PendingProbe ==
    [done |-> FALSE, code |-> 0, stdout |-> S_Empty, result |-> <<>>]

Idle ==
    /\ pc = "idle"
    /\ op = "none"
    /\ sdkLanguage = S_Empty
    /\ directoryPaths = <<>>
    /\ dlOpenLibraries = <<>>
    /\ scanned = 0
    /\ lddPaths = <<>>
    /\ probes = <<>>
    /\ ldconfig = LdconfigNotRun
    /\ missingDeps = <<>>
    /\ missingPackages = <<>>
    /\ targets = <<>>
    /\ dryRun = FALSE
    /\ resolved = NoCommand
    /\ spawned = <<>>
    /\ stdoutLog = <<>>
    /\ warnLog = <<>>
    /\ outcome = Pending

\* the answers of the host to the reads a call makes
Architectures ==
    {S_x64, S_ia32}

Releases ==
    {S_rel61, S_rel62, S_rel100, S_rel52}

Uids ==
    {<<0>>, <<1000>>}

Init ==
    /\ platform \in {"linux", "win32"}
    /\ arch = S_Empty
    /\ release = S_Empty
    /\ uid = <<>>
    /\ hostInfo = NoInfo
    /\ Idle

(***************************************************************************)
(* Validation: scan, probe, aggregate, classify                            *)
(***************************************************************************)
\* validateDependenciesLinux is called
validateDependenciesLinux(language, directories, libraries) ==
    /\ pc = "idle"
    /\ platform = "linux"
    /\ op' = "validateDependenciesLinux"
    /\ sdkLanguage' = language
    /\ directoryPaths' = directories
    /\ dlOpenLibraries' = libraries
    /\ pc' = IF directories = <<>> THEN "probing" ELSE "scanning"
    /\ UNCHANGED <<envVars, scanned, lddPaths, probes, ldconfig, missingDeps,
                   missingPackages, installVars, stdoutLog, warnLog, outcome>>

\* validateDependenciesWindows is called
validateDependenciesWindows(directories) ==
    /\ pc = "idle"
    /\ platform = "win32"
    /\ op' = "validateDependenciesWindows"
    /\ directoryPaths' = directories
    /\ pc' = IF directories = <<>> THEN "probing" ELSE "scanning"
    /\ UNCHANGED <<envVars, sdkLanguage, dlOpenLibraries, scanned, lddPaths, probes,
                   ldconfig, missingDeps, missingPackages, installVars, stdoutLog,
                   warnLog, outcome>>

\* the next directory is scanned: the scan rejects and the call fails with its error, or
\* its candidates are appended; after the last directory every probe is launched at once
ScanDirectory(listing) ==
    /\ pc = "scanning"
    /\ LET scan == executablesOrSharedLibraries(platform, directoryPaths[scanned + 1], listing)
       IN  IF scan.rejected
           THEN /\ outcome' = Threw("io", scan.error, FALSE)
                /\ pc' = "done"
                /\ UNCHANGED <<scanned, lddPaths, probes>>
           ELSE /\ lddPaths' = lddPaths \o scan.paths
                /\ scanned' = scanned + 1
                /\ IF scanned' = Len(directoryPaths)
                   THEN /\ pc' = "probing"
                        /\ probes' = [i \in 1..Len(lddPaths') |-> PendingProbe]
                   ELSE /\ pc' = "scanning"
                        /\ UNCHANGED probes
                /\ UNCHANGED outcome
    /\ UNCHANGED <<envVars, op, sdkLanguage, directoryPaths, dlOpenLibraries, ldconfig,
                   missingDeps, missingPackages, installVars, stdoutLog, warnLog>>

\* the introspection tool of probe i exits and the probe resolves with its parsed result
ProbeExit(i, run) ==
    /\ pc = "probing"
    /\ i \in 1..Len(probes)
    /\ ~probes[i].done
    /\ probes' = [probes EXCEPT ![i] =
           [done |-> TRUE, code |-> run.code, stdout |-> run.stdout,
            result |-> IF op = "validateDependenciesLinux"
                       THEN missingFileDependencies(run.code, run.stdout)
                       ELSE missingFileDependenciesWindows(run.code, run.stdout)]]
    /\ UNCHANGED <<envVars, pc, op, sdkLanguage, directoryPaths, dlOpenLibraries, scanned,
                   lddPaths, ldconfig, missingDeps, missingPackages, installVars,
                   stdoutLog, warnLog, outcome>>

\* Promise.race in place of Promise.all
someProbeDone ==
    probes = <<>> \/ \E i \in 1..Len(probes) : probes[i].done

\* Promise.all resolved
allProbesDone ==
    \A i \in 1..Len(probes) : probes[i].done

\* allMissingDeps, in the order of lddPaths
allMissingDeps ==
    [i \in 1..Len(probes) |-> probes[i].result]

\* Linux fan-in: the probe results, then the result of missingDLOPENLibraries, are added
AggregateLinux(run) ==
    /\ pc = "probing"
    /\ op = "validateDependenciesLinux"
    /\ allProbesDone
    /\ run.ran = (dlOpenLibraries # <<>>)
    /\ ldconfig' = run
    /\ missingDeps' = setAddAll(setAddAll(<<>>, flatten(allMissingDeps)),
                          missingDLOPENLibraries(dlOpenLibraries, run.code, run.error,
                                                 run.stdout))
    /\ pc' = "classify"
    /\ UNCHANGED <<envVars, op, sdkLanguage, directoryPaths, dlOpenLibraries, scanned,
                   lddPaths, probes, missingPackages, installVars, stdoutLog, warnLog,
                   outcome>>

\* buildPlaywrightCLICommand(sdkLanguage, 'install-deps') of the registry
buildPlaywrightCLICommand(language, parameters) ==
    (IF language = S_javascript THEN S_npxPlaywright ELSE S_playwright) \o parameters

RECURSIVE translateToPackages(_, _, _, _)
\* the loop that moves every missing library with a known package to missingPackages
translateToPackages(todo, mapping, packages, libraries) ==
    IF todo = <<>> THEN [missingPackages |-> packages, missingDeps |-> libraries]
    ELSE LET packageName == lookup(mapping, todo[1])
         IN  IF packageName # <<>>
             THEN translateToPackages(Tail(todo), mapping, setAdd(packages, packageName),
                                      setDelete(libraries, todo[1]))
             ELSE translateToPackages(Tail(todo), mapping, packages, libraries)

\* maybeSudo
maybeSudo(processUid) ==
    IF processUid # <<0>> /\ platform # "win32" THEN S_sudoSp ELSE S_Empty

\* the text of the error that recommends the Playwright CLI
cliMessage(processUid) ==
    join(<<S_HostFew,
           S_PleaseInstall,
           S_Empty,
           S_Indent4 \o maybeSudo(processUid) \o buildPlaywrightCLICommand(sdkLanguage, S_installDeps),
           S_Empty,
           S_Team>>, S_NL)

\* missingPackagesMessage
missingPackagesMessage(packages, processUid) ==
    IF packages = <<>> THEN S_Empty
    ELSE join(<<S_InstallMissingWith,
                S_Indent6 \o maybeSudo(processUid) \o S_aptGetInstall \o join(packages, S_PkgSep),
                S_Empty,
                S_Empty>>, S_NL)

\* missingDependenciesMessage
missingDependenciesMessage(packages, libraries) ==
    IF libraries = <<>> THEN S_Empty
    ELSE join(<<S_Indent2 \o (IF packages # <<>> THEN S_HeaderNoPackages ELSE S_HeaderPlain),
                S_Indent6 \o join(libraries, S_DepSep),
                S_Empty>>, S_NL)

\* the error thrown for a non-empty missing set: the CLI recommendation when every
\* library was translated, the apt-get line and the raw listing otherwise
linuxError(t, processUid) ==
    IF t.missingPackages # <<>> /\ t.missingDeps = <<>>
    THEN Threw("Error", S_NL \o cliMessage(processUid), TRUE)
    ELSE Threw("Error",
               S_HostMissing \o missingPackagesMessage(t.missingPackages, processUid) \o
               missingDependenciesMessage(t.missingPackages, t.missingDeps),
               FALSE)

\* classifyLinux with the emptiness test made after the translation loop
classifyLinuxTestingLate(deps, info, processUid) ==
    LET t == translateToPackages(deps, libraryToPackageNameMapping(info), <<>>, deps)
    IN  [outcome |-> IF t.missingDeps = <<>> THEN Returned ELSE linuxError(t, processUid),
         missingPackages |-> t.missingPackages,
         missingDeps |-> t.missingDeps]

\* validateDependenciesLinux from the emptiness test to its return or throw
classifyLinux(deps, info, processUid) ==
    IF deps = <<>>
    THEN [outcome |-> Returned, missingPackages |-> <<>>, missingDeps |-> <<>>]
    ELSE LET t == translateToPackages(deps, libraryToPackageNameMapping(info), <<>>, deps)
         IN  [outcome |-> linuxError(t, processUid), missingPackages |-> t.missingPackages,
              missingDeps |-> t.missingDeps]

\* Linux classification: returns when nothing is missing; otherwise reads the catalog
\* and the uid of the process, and throws
ClassifyLinux(info, processUid) ==
    /\ pc = "classify"
    /\ op = "validateDependenciesLinux"
    /\ pc' = "done"
    /\ IF missingDeps = <<>> THEN UNCHANGED <<hostInfo, uid>>
                             ELSE hostInfo' = info /\ uid' = processUid
    /\ LET r == classifyLinux(missingDeps, info, processUid)
       IN  /\ outcome' = r.outcome
           /\ missingPackages' = r.missingPackages
           /\ missingDeps' = r.missingDeps
    /\ UNCHANGED <<platform, arch, release, op, sdkLanguage, directoryPaths,
                   dlOpenLibraries, scanned, lddPaths, probes, ldconfig, installVars,
                   stdoutLog, warnLog>>

\* the first branch of the bucket test without the prefix test
isCrtExactNamesOnly(dep) ==
    dep \in {S_vcruntime140, S_vcruntime140_1, S_msvcp140}

\* the first branch of the bucket test
isCrt(dep) ==
    \/ startsWith(dep, S_apiMsWinCrt)
    \/ dep \in {S_vcruntime140, S_vcruntime140_1, S_msvcp140}

\* the else-if branch of the bucket test
isMediaFoundation(dep) ==
    ~isCrt(dep) /\ dep \in {S_mf, S_mfplat, S_msmpeg2vdec, S_evr, S_avrt}

\* details
details(deps) ==
    (IF \E i \in 1..Len(deps) : isCrt(deps[i])
     THEN <<S_Crt1, S_Crt2, S_Crt3, S_Empty>> ELSE <<>>) \o
    (IF \E i \in 1..Len(deps) : isMediaFoundation(deps[i])
     THEN <<S_Mf1, S_Mf2, S_Mf3, S_Empty, S_Mf4, S_Empty, S_Mf5, S_Mf6, S_Empty>> ELSE <<>>) \o
    <<S_FullList, S_Indent4 \o join(deps, S_WinDepSep), S_Empty>>

\* Windows fan-in and classification: returns when nothing is missing; otherwise reads
\* the architecture and the release, and throws or warns
ClassifyWindows(osArch, osRelease) ==
    /\ pc = "probing"
    /\ op = "validateDependenciesWindows"
    /\ allProbesDone
    /\ pc' = "done"
    /\ missingDeps' = setAddAll(<<>>, flatten(allMissingDeps))
    /\ LET message == S_HostMissing \o join(details(missingDeps'), S_NL)
       IN  IF missingDeps' = <<>>
           THEN outcome' = Returned /\ UNCHANGED <<warnLog, arch, release>>
           ELSE /\ arch' = osArch
                /\ release' = osRelease
                /\ IF isSupportedWindowsVersion(platform, osArch, osRelease)
                   THEN outcome' = Threw("Error", message, FALSE) /\ UNCHANGED warnLog
                   ELSE /\ warnLog' = warnLog \o <<S_WarnUnsupported, message>>
                        /\ outcome' = Returned
    /\ UNCHANGED <<platform, uid, hostInfo, op, sdkLanguage, directoryPaths,
                   dlOpenLibraries, scanned, lddPaths, probes, ldconfig, missingPackages,
                   installVars, stdoutLog>>

(***************************************************************************)
(* Installation                                                            *)
(***************************************************************************)
\* the Sets of dependency groups a caller passes, in insertion order
TargetInputs ==
    {s \in UNION {[1..n -> DependencyGroup] : n \in 0..Cardinality(DependencyGroup)} :
        \A i, j \in 1..Len(s) : i # j => s[i] # s[j]}

\* path.join(BIN_DIRECTORY, file)
pathJoin(directory, file) ==
    directory \o (IF platform = "win32" THEN S_Backslash ELSE S_Slash) \o file

\* the line dry-run mode prints
commandLine(command, args) ==
    command \o S_SP \o join(quoteProcessArgs(args), S_SP)

\* installDependenciesWindows up to its return or its spawn
installDependenciesWindows(requested, isDryRun, BIN_DIRECTORY) ==
    /\ pc = "idle"
    /\ platform = "win32"
    /\ op' = "installDependenciesWindows"
    /\ targets' = requested
    /\ dryRun' = isDryRun
    /\ IF "chromium" \in Range(requested)
       THEN LET command == S_powershell
                args    == <<S_ExecutionPolicy, S_Bypass, S_File,
                             pathJoin(BIN_DIRECTORY, S_installMediaPack)>>
            IN  /\ resolved' = [command |-> command, args |-> args,
                                elevatedPermissions |-> FALSE]
                /\ IF isDryRun
                   THEN /\ stdoutLog' = Append(stdoutLog, commandLine(command, args))
                        /\ outcome' = Returned
                        /\ pc' = "done"
                        /\ UNCHANGED spawned
                   ELSE /\ spawned' = Append(spawned, [command |-> command, args |-> args])
                        /\ pc' = "spawned"
                        /\ UNCHANGED <<stdoutLog, outcome>>
       ELSE /\ outcome' = Returned
            /\ pc' = "done"
            /\ UNCHANGED <<resolved, spawned, stdoutLog>>
    /\ UNCHANGED <<envVars, validateVars, warnLog>>

\* utils.transformCommandsForRoot: the privilege-elevation wrapper of the commands
transformCommandsForRoot(commands, processUid, sudoExists) ==
    LET script == join(commands, S_AndAnd)
    IN  IF processUid = <<0>>
        THEN [command |-> S_sh, args |-> <<S_dashC, script>>, elevatedPermissions |-> FALSE]
        ELSE IF sudoExists
        THEN [command |-> S_sudo, args |-> <<S_dashDash, S_sh, S_dashC, script>>,
              elevatedPermissions |-> TRUE]
        ELSE [command |-> S_su, args |-> <<S_root, S_dashC, script>>,
              elevatedPermissions |-> TRUE]

\* the groups of the catalog entry
hasGroup(info, target) ==
    target \in DOMAIN info.groups

\* installDependenciesLinux up to its return, its throw or its spawn; info is the
\* catalog entry of the host, processUid and sudoExists what transformCommandsForRoot finds
installDependenciesLinux(requested, isDryRun, info, processUid, sudoExists) ==
    /\ pc = "idle"
    /\ platform = "linux"
    /\ op' = "installDependenciesLinux"
    /\ targets' = requested
    /\ dryRun' = isDryRun
    /\ hostInfo' = info
    /\ IF requested # <<>> /\ ~info.present
       THEN /\ warnLog' = Append(warnLog, S_CannotInstall)
            /\ outcome' = Returned
            /\ pc' = "done"
            /\ UNCHANGED <<resolved, spawned, stdoutLog, uid>>
       ELSE IF \E i \in 1..Len(requested) : ~hasGroup(info, requested[i])
       THEN /\ outcome' = Threw("TypeError", S_TypeErrorSpread, FALSE)
            /\ pc' = "done"
            /\ UNCHANGED <<resolved, spawned, stdoutLog, warnLog, uid>>
       ELSE LET libraries == flatten([i \in 1..Len(requested) |-> info.groups[requested[i]]])
                uniqueLibraries == setAddAll(<<>>, libraries)
                commands == <<S_aptGetUpdate,
                              join(<<S_aptGet, S_install, S_y, S_noInstallRecommends>> \o
                                   uniqueLibraries, S_SP)>>
                root == transformCommandsForRoot(commands, processUid, sudoExists)
            IN  /\ resolved' = root
                /\ uid' = processUid
                /\ UNCHANGED warnLog
                /\ IF isDryRun
                   THEN /\ stdoutLog' = Append(stdoutLog, commandLine(root.command, root.args))
                        /\ outcome' = Returned
                        /\ pc' = "done"
                        /\ UNCHANGED spawned
                   ELSE /\ stdoutLog' = stdoutLog \o <<S_InstallingUbuntu>> \o
                               (IF root.elevatedPermissions THEN <<S_SwitchingToRoot>> ELSE <<>>)
                        /\ spawned' = Append(spawned, [command |-> root.command,
                                                       args |-> root.args])
                        /\ pc' = "spawned"
                        /\ UNCHANGED outcome
    /\ UNCHANGED <<platform, arch, release, validateVars>>

\* the spawned install process exits with a code
ChildExit(code) ==
    /\ pc = "spawned"
    /\ pc' = "done"
    /\ outcome' = IF op = "installDependenciesWindows" /\ code # 0
                  THEN Threw("Error", S_FailedWindows, FALSE)
                  ELSE Returned
    /\ UNCHANGED <<envVars, op, validateVars, installVars, stdoutLog, warnLog>>

\* the spawned install process emits error (Linux: child.on('error', reject))
ChildError ==
    /\ pc = "spawned"
    /\ op = "installDependenciesLinux"
    /\ pc' = "done"
    /\ outcome' = Threw("spawn", S_EIO, FALSE)
    /\ UNCHANGED <<envVars, op, validateVars, installVars, stdoutLog, warnLog>>

Next ==
    \/ \E language \in SdkLanguages, directories \in DirectoryInputs, libraries \in DlOpenInputs :
          validateDependenciesLinux(language, directories, libraries)
    \/ \E directories \in DirectoryInputs : validateDependenciesWindows(directories)
    \/ \E listing \in Listings : ScanDirectory(listing)
    \/ \E i \in 1..Len(probes) :
          \E run \in (IF op = "validateDependenciesLinux" THEN LddRuns ELSE PrintDepsRuns) :
             ProbeExit(i, run)
    \/ \E run \in LdconfigRuns \cup {LdconfigNotRun} : AggregateLinux(run)
    \/ \E info \in Catalogs, processUid \in Uids : ClassifyLinux(info, processUid)
    \/ \E osArch \in Architectures, osRelease \in Releases : ClassifyWindows(osArch, osRelease)
    \/ \E requested \in TargetInputs, isDryRun \in BOOLEAN, directory \in BinDirectories :
          installDependenciesWindows(requested, isDryRun, directory)
    \/ \E requested \in TargetInputs, isDryRun \in BOOLEAN, info \in Catalogs,
          processUid \in Uids, sudoExists \in BOOLEAN :
          installDependenciesLinux(requested, isDryRun, info, processUid, sudoExists)
    \/ \E code \in {0, 1} : ChildExit(code)
    \/ ChildError

Spec ==
    Init /\ [][Next]_vars

(***************************************************************************)
(* Properties of validation                                                *)
(***************************************************************************)
\* every name some probe returned
ProbeUnion ==
    UNION {Range(probes[i].result) : i \in 1..Len(probes)}

\* name occurs in text when letter case is ignored
OccursIgnoringCase(name, text) ==
    \E k \in 0..(Len(text) - Len(name)) :
       \A j \in 1..Len(name) :
          toLowerCase(<<text[k + j]>>) = toLowerCase(<<name[j]>>)

\* the cache listing was obtained
CacheListed ==
    ldconfig.ran /\ ldconfig.code = 0 /\ ~ldconfig.error

\* the dynamic-load check found name in the linker cache
FoundPresent(name) ==
    /\ name \in Range(dlOpenLibraries)
    /\ CacheListed
    /\ OccursIgnoringCase(name, ldconfig.stdout)

\* the names the dynamic-load check reports missing
DlopenMissing ==
    IF CacheListed
    THEN {name \in Range(dlOpenLibraries) : ~OccursIgnoringCase(name, ldconfig.stdout)}
    ELSE {}

\* union of all probe results and of the dynamic-load check result
AggregatedMissing ==
    ProbeUnion \cup DlopenMissing

NoDuplicates(s) ==
    \A i, j \in 1..Len(s) : i # j => s[i] # s[j]

LinuxClassified ==
    op = "validateDependenciesLinux" /\ pc = "done" /\ outcome.kind # "io"

WindowsClassified ==
    op = "validateDependenciesWindows" /\ pc = "done" /\ outcome.kind # "io"

\* C1: once validateDependenciesLinux has aggregated, it ends in a thrown error exactly
\* when the aggregated missing set is non-empty; with an empty set it returns and writes
\* nothing; a non-empty set never ends in a warning or a return.
C1_FatalIffMissing ==
    LinuxClassified =>
       IF AggregatedMissing = {}
       THEN outcome = Returned /\ warnLog = <<>> /\ stdoutLog = <<>>
       ELSE outcome.kind = "Error" /\ outcome.message # <<>> /\ warnLog = <<>>

C1_Witness ==
    /\ LinuxClassified
    /\ AggregatedMissing # {}
    /\ outcome.kind = "Error"

\* C2: a probe whose tool exited non-zero returns the empty list, raises no error, leaves
\* the other probes and the validation running, and adds no name to the missing set.
C2_NonZeroExitYieldsEmpty ==
    \A i \in 1..Len(probes) :
       (probes[i].done /\ probes[i].code # 0) =>
          /\ probes[i].result = <<>>
          /\ pc = "probing" => outcome = Pending
          /\ pc \in {"classify", "done"} =>
                /\ \A j \in 1..Len(probes) : probes[j].done
                /\ outcome.kind \in {"pending", "returned", "Error"}
          /\ (pc = "classify" \/ WindowsClassified) =>
                Range(missingDeps) =
                   UNION {Range(probes[j].result) :
                             j \in {k \in 1..Len(probes) : probes[k].code = 0}}
                   \cup DlopenMissing

C2_Witness ==
    /\ pc = "done"
    /\ \E i, j \in 1..Len(probes) :
          /\ probes[i].code # 0
          /\ includes(probes[i].stdout, S_NotFound)
          /\ probes[j].code = 0
          /\ probes[j].result # <<>>

\* C3 as claimed: the set handed to the classifier holds no name that the dynamic-load
\* check found present in the linker cache.
C3_NoPresentNameInMissingSet ==
    pc = "classify" => \A name \in Range(missingDeps) : ~FoundPresent(name)

\* C3 as amended: a name the dynamic-load check found present is in the set handed to the
\* classifier exactly when some probe reported it missing; the check neither adds nor
\* removes it.
C3_PresentNameKeptIffProbed ==
    pc = "classify" =>
       \A name \in Range(dlOpenLibraries) :
          FoundPresent(name) => (name \in Range(missingDeps) <=> name \in ProbeUnion)

C3_Witness ==
    /\ pc = "classify"
    /\ \E name \in Range(missingDeps) : FoundPresent(name)
    /\ \E name \in Range(dlOpenLibraries) : FoundPresent(name) /\ name \notin Range(missingDeps)

\* C4: classification starts only once every launched probe has completed, and the set it
\* receives is the duplicate-free union of all probe results (and, on Linux, of the
\* dynamic-load check result), whatever the order of completion.
C4_CompleteDeduplicatedUnion ==
    /\ (pc = "classify" \/ LinuxClassified \/ WindowsClassified) =>
          /\ Len(probes) = Len(lddPaths)
          /\ \A i \in 1..Len(probes) : probes[i].done
    /\ pc = "classify" =>
          NoDuplicates(missingDeps) /\ Range(missingDeps) = AggregatedMissing
    /\ WindowsClassified =>
          NoDuplicates(missingDeps) /\ Range(missingDeps) = ProbeUnion

C4_Witness ==
    /\ pc = "classify"
    /\ Len(probes) = 2
    /\ probes[1].result # <<>>
    /\ probes[1].result = probes[2].result
    /\ DlopenMissing # {}

\* the listings on which readdir or a stat rejects
FailingListings ==
    {l \in Listings : ~l.readdirOk \/ \E i \in 1..Len(l.entries) : ~l.entries[i].statOk}

\* C5: a step in which readdir or the stat of any entry rejects ends the call with that
\* error, launches no probe and classifies nothing; a call ended that way has neither
\* returned nor built a missing set from the candidates found before.
C5_ScanFailureFailsCall ==
    /\ [][\A l \in FailingListings :
             ScanDirectory(l) =>
                /\ pc' = "done"
                /\ outcome' = Threw("io", IF l.readdirOk THEN S_EACCES ELSE S_ENOENT, FALSE)
                /\ UNCHANGED <<probes, missingDeps, missingPackages, warnLog, stdoutLog>>]_vars
    /\ [](outcome.kind = "io" =>
             /\ pc = "done"
             /\ probes = <<>>
             /\ missingDeps = <<>>
             /\ missingPackages = <<>>
             /\ warnLog = <<>>)

C5_Witness ==
    /\ outcome.kind = "io"
    /\ outcome.message = S_EACCES
    /\ lddPaths # <<>>

(***************************************************************************)
(* Properties of the Windows classification                                *)
(***************************************************************************)
\* major and minor version of Releases
ReleaseNumbers ==
    (S_rel61 :> <<6, 1>>) @@ (S_rel62 :> <<6, 2>>) @@ (S_rel100 :> <<10, 0>>) @@
    (S_rel52 :> <<5, 2>>)

SupportedWindows ==
    /\ arch = S_x64
    /\ \/ ReleaseNumbers[release][1] > 6
       \/ ReleaseNumbers[release][1] = 6 /\ ReleaseNumbers[release][2] > 1

\* C6: on Windows with a non-empty missing set the call throws exactly when the platform
\* is supported (x64 and version above 6.1) and otherwise writes the warning and returns;
\* 6.1 warns and 6.2 on x64 throws.
C6_FatalIffSupportedWindows ==
    (WindowsClassified /\ platform = "win32" /\ missingDeps # <<>>) =>
       /\ IF SupportedWindows
          THEN outcome.kind = "Error" /\ warnLog = <<>>
          ELSE outcome = Returned /\ Len(warnLog) = 2 /\ warnLog[1] = S_WarnUnsupported
       /\ release = S_rel61 => outcome = Returned
       /\ (release = S_rel62 /\ arch = S_x64) => outcome.kind = "Error"

C6_Witness ==
    /\ WindowsClassified
    /\ missingDeps # <<>>
    /\ release = S_rel61
    /\ arch = S_x64
    /\ outcome = Returned
    /\ Len(warnLog) = 2

(***************************************************************************)
(* Properties of installation                                              *)
(***************************************************************************)
InstallCalled ==
    op \in {"installDependenciesWindows", "installDependenciesLinux"}

ContainsSpace(arg) ==
    \E k \in 1..Len(arg) : arg[k] = " "

InDoubleQuotes(arg) ==
    IF ContainsSpace(arg) THEN <<"\"">> \o arg \o <<"\"">> ELSE arg

RECURSIVE SpaceSeparated(_)
SpaceSeparated(args) ==
    IF args = <<>> THEN <<>>
    ELSE <<" ">> \o InDoubleQuotes(args[1]) \o SpaceSeparated(Tail(args))

\* the command line of the resolved command
ExpectedCommandLine ==
    resolved.command \o SpaceSeparated(resolved.args)

\* the requested groups for which the installer gets as far as resolving a command
CommandResolved ==
    IF op = "installDependenciesWindows"
    THEN "chromium" \in Range(targets)
    ELSE \/ targets = <<>>
         \/ hostInfo.present /\ \A i \in 1..Len(targets) : targets[i] \in DOMAIN hostInfo.groups

\* C7 as claimed: in dry-run mode, for every requested set, the installer spawns nothing,
\* prints the quoted command line and returns.
C7_DryRunPrintsCommandLine ==
    (InstallCalled /\ dryRun) =>
       /\ spawned = <<>>
       /\ pc = "done"
       /\ outcome = Returned
       /\ stdoutLog = <<ExpectedCommandLine>>

\* C7 as amended: in dry-run mode the installer never spawns; when it resolves a command
\* it prints exactly that command line, space-containing arguments in double quotes, and
\* returns; otherwise it prints nothing.
C7_DryRunNeverSpawns ==
    (InstallCalled /\ dryRun) =>
       /\ spawned = <<>>
       /\ pc = "done"
       /\ IF CommandResolved
          THEN /\ outcome = Returned
               /\ resolved # NoCommand
               /\ stdoutLog = <<ExpectedCommandLine>>
          ELSE /\ resolved = NoCommand
               /\ stdoutLog = <<>>

C7_Witness ==
    /\ op = "installDependenciesWindows"
    /\ dryRun
    /\ Len(stdoutLog) = 1
    /\ \E i \in 1..Len(resolved.args) : ContainsSpace(resolved.args[i])
    /\ \E i \in 1..Len(resolved.args) : ~ContainsSpace(resolved.args[i])

\* C8: on the Linux install path, whenever the catalog has no entry for the host platform
\* or lacks a requested group, the installer warns, returns and spawns nothing.
C8_MissingCatalogWarnsAndReturns ==
    (/\ op = "installDependenciesLinux"
     /\ \/ ~hostInfo.present
        \/ \E i \in 1..Len(targets) : targets[i] \notin DOMAIN hostInfo.groups) =>
       /\ pc = "done"
       /\ outcome = Returned
       /\ warnLog = <<S_CannotInstall>>
       /\ spawned = <<>>

(***************************************************************************)
(* Properties of the Linux classification                                  *)
(***************************************************************************)
\* the effective mapping: the manual entry for libx264.so, else the catalog's table
HasPackage(name) ==
    \/ name = S_libx264
    \/ hostInfo.present /\ hostInfo.hasLib2package /\ name \in DOMAIN hostInfo.lib2package

PackageOf(name) ==
    IF name = S_libx264 THEN S_pkgGstLibav ELSE hostInfo.lib2package[name]

ResolvedNames ==
    {name \in AggregatedMissing : HasPackage(name)}

UnresolvedNames ==
    AggregatedMissing \ ResolvedNames

ResolvedPackages ==
    {PackageOf(name) : name \in ResolvedNames}

\* every library and package name of the model's inputs
LibraryNames ==
    {S_libgtk, S_libweird, S_libx264, S_libc}

PackageNames ==
    {S_pkgGtk, S_pkgX264, S_pkgNss, S_pkgGstLibav}

\* C9: on Linux with a non-empty missing set the thrown message recommends the CLI
\* install-deps command, without an apt-get line, exactly when every missing name has a
\* package in the effective mapping; otherwise it holds an apt-get install line naming
\* exactly the resolved packages (present iff a name resolved), followed by exactly the
\* names without a package; no name is both resolved and listed.
C9_LinuxMessage ==
    LinuxClassified =>
       LET names      == AggregatedMissing
           translated == {name \in names : HasPackage(name)}
           listed     == names \ translated
           packages   == {PackageOf(name) : name \in translated}
           message    == outcome.message
           at         == [text \in PackageNames \cup LibraryNames \cup {S_aptGetInstall}
                             |-> indexOf(message, text)]
       IN  names # {} =>
              /\ Range(missingDeps) = listed
              /\ Range(missingPackages) = packages
              /\ IF listed = {}
                 THEN /\ includes(message, buildPlaywrightCLICommand(sdkLanguage, S_installDeps))
                      /\ ~includes(message, S_aptGet)
                      /\ \A name \in LibraryNames : at[name] = 0
                 ELSE /\ ~includes(message, S_installDeps)
                      /\ at[S_aptGetInstall] # 0 <=> translated # {}
                      /\ \A package \in PackageNames : at[package] # 0 <=> package \in packages
                      /\ \A name \in LibraryNames : at[name] # 0 <=> name \in listed
                      /\ \A name \in listed, package \in packages :
                            at[S_aptGetInstall] < at[package] /\ at[package] < at[name]

C9_Witness ==
    /\ LinuxClassified
    /\ S_libweird \in UnresolvedNames
    /\ S_libx264 \in ResolvedNames
    /\ S_libgtk \in ResolvedNames

(***************************************************************************)
(* Properties of the dynamic-load check                                    *)
(***************************************************************************)
\* the requested names that do not occur in the cache listing, letter case ignored
AbsentFromCache ==
    {name \in Range(dlOpenLibraries) : ~OccursIgnoringCase(name, ldconfig.stdout)}

\* C11: /sbin/ldconfig is run exactly when the list of libraries is non-empty, and only
\* at the fan-in; when it succeeds, every listed name that does not occur in its output
\* as a case-insensitive substring enters the missing set, probed or not, and the check
\* adds no other name; when it exits non-zero or reports an error it adds nothing.
C11_DlopenResult ==
    /\ ldconfig.ran => (dlOpenLibraries # <<>> /\ pc \in {"classify", "done"})
    /\ (op = "validateDependenciesLinux" /\ pc = "classify") =>
          /\ ldconfig.ran <=> dlOpenLibraries # <<>>
          /\ IF ldconfig.ran /\ ldconfig.code = 0 /\ ~ldconfig.error
             THEN /\ AbsentFromCache \subseteq Range(missingDeps)
                  /\ Range(missingDeps) \ ProbeUnion = AbsentFromCache \ ProbeUnion
             ELSE Range(missingDeps) = ProbeUnion

C11_Witness ==
    /\ pc = "classify"
    /\ lddPaths = <<>>
    /\ ldconfig.ran /\ ldconfig.code = 0 /\ ~ldconfig.error
    /\ missingDeps = <<S_libx264>>
    /\ S_libgtk \in Range(dlOpenLibraries)
    /\ ~includes(ldconfig.stdout, S_libgtk)

(***************************************************************************)
(* Probe output parsing over composed tool outputs                         *)
(***************************************************************************)
\* the pieces tool outputs are composed of
ParsePieces ==
    {S_SP \o <<"L", "i", "b">> \o S_SP \o S_Arrow \o S_SP \o S_NotFound,
     <<"L", "i", "b">>, S_Arrow, S_NotFound, S_SP, S_NL, <<"\r">>}

RECURSIVE Compositions(_)
Compositions(n) ==
    IF n = 0 THEN {<<>>}
    ELSE {piece \o rest : piece \in ParsePieces, rest \in Compositions(n - 1)}

ParseInputs ==
    UNION {Compositions(n) : n \in 0..MaxPieces}

\* one candidate has been found and its probe is running
InitParse ==
    /\ platform \in {"linux", "win32"}
    /\ arch = S_Empty
    /\ release = S_Empty
    /\ uid = <<>>
    /\ hostInfo = NoInfo
    /\ pc = "probing"
    /\ op = IF platform = "linux" THEN "validateDependenciesLinux"
            ELSE "validateDependenciesWindows"
    /\ sdkLanguage = IF platform = "linux" THEN S_javascript ELSE S_Empty
    /\ directoryPaths = <<S_dirA>>
    /\ dlOpenLibraries = <<>>
    /\ scanned = 1
    /\ lddPaths = <<pathResolve(S_dirA, S_app)>>
    /\ probes = <<PendingProbe>>
    /\ ldconfig = LdconfigNotRun
    /\ missingDeps = <<>>
    /\ missingPackages = <<>>
    /\ targets = <<>>
    /\ dryRun = FALSE
    /\ resolved = NoCommand
    /\ spawned = <<>>
    /\ stdoutLog = <<>>
    /\ warnLog = <<>>
    /\ outcome = Pending

\* the tool exits with status 0 and any composed output
NextParse ==
    /\ pc = "probing"
    /\ ~probes[1].done
    /\ \E stdout \in ParseInputs : ProbeExit(1, [code |-> 0, stdout |-> stdout])

SpecParse ==
    InitParse /\ [][NextParse]_vars

\* the positions of the line feeds of text, and its lines
LineFeeds(text) ==
    {i \in 1..Len(text) : text[i] = "\n"}

LineCount(text) ==
    Cardinality(LineFeeds(text)) + 1

\* the k-th smallest element of a set of numbers
Nth(S, k) ==
    CHOOSE x \in S : Cardinality({y \in S : y <= x}) = k

Line(text, k) ==
    SubSeq(text,
           IF k = 1 THEN 1 ELSE Nth(LineFeeds(text), k - 1) + 1,
           IF k = LineCount(text) THEN Len(text) ELSE Nth(LineFeeds(text), k) - 1)

\* text without its leading and trailing whitespace
Stripped(text) ==
    LET first == CHOOSE a \in 1..(Len(text) + 1) :
                    /\ \A i \in 1..(a - 1) : text[i] \in WhiteSpace
                    /\ a <= Len(text) => text[a] \notin WhiteSpace
        last  == CHOOSE b \in 0..Len(text) :
                    /\ \A i \in (b + 1)..Len(text) : text[i] \in WhiteSpace
                    /\ b >= 1 => text[b] \notin WhiteSpace
    IN  SubSeq(text, first, last)

SeparatorAt(text) ==
    {k \in 1..(Len(text) - 1) : text[k] = "=" /\ text[k + 1] = ">"}

\* the stripped line ends with not found and contains =>
ReportsMissing(line) ==
    /\ Len(line) >= 9
    /\ SubSeq(line, Len(line) - 8, Len(line)) = S_NotFound
    /\ SeparatorAt(line) # {}

\* the stripped text before the first separator of a stripped line
NameOf(line) ==
    Stripped(SubSeq(line, 1, Nth(SeparatorAt(line), 1) - 1))

\* the numbers of the lines of text that report a missing dependency
MissingLineNumbers(text) ==
    {k \in 1..LineCount(text) : ReportsMissing(Stripped(Line(text, k)))}

\* C10: for an output returned with exit status 0 a probe returns, in order, one name per
\* line that, stripped, ends with not found and contains =>, and nothing for any other
\* line; the name is the stripped text before the separator, verbatim on Linux and
\* lower-cased on Windows.
C10_ParsedNames ==
    \A i \in 1..Len(probes) :
       (probes[i].done /\ probes[i].code = 0) =>
          LET text    == probes[i].stdout
              numbers == MissingLineNumbers(text)
          IN  /\ Len(probes[i].result) = Cardinality(numbers)
              /\ \A m \in 1..Cardinality(numbers) :
                    LET name == NameOf(Stripped(Line(text, Nth(numbers, m))))
                    IN  probes[i].result[m] =
                           IF op = "validateDependenciesLinux" THEN name
                           ELSE toLowerCase(name)

C10_Witness ==
    /\ op = "validateDependenciesWindows"
    /\ probes[1].done
    /\ probes[1].code = 0
    /\ LineCount(probes[1].stdout) = 2
    /\ Line(probes[1].stdout, 2) = S_NotFound
    /\ probes[1].result = <<<<"l", "i", "b">>>>

(***************************************************************************)
(* Properties of the Windows message                                       *)
(***************************************************************************)
\* the message of a Windows validation that found missing names: thrown, or written as
\* the second warning
WindowsMessage ==
    IF outcome.kind = "Error" THEN outcome.message ELSE warnLog[2]

InCrtBucket(name) ==
    \/ Len(name) >= 14 /\ SubSeq(name, 1, 14) = S_apiMsWinCrt
    \/ name \in {S_vcruntime140, S_vcruntime140_1, S_msvcp140}

InMediaFoundationBucket(name) ==
    name \in {S_mf, S_mfplat, S_msmpeg2vdec, S_evr, S_avrt}

CrtBlock ==
    S_Crt1 \o S_NL \o S_Crt2 \o S_NL \o S_Crt3 \o S_NL

MediaFoundationBlock ==
    S_Mf1 \o S_NL \o S_Mf2 \o S_NL \o S_Mf3 \o S_NL \o S_NL \o S_Mf4 \o S_NL \o S_NL \o
    S_Mf5 \o S_NL \o S_Mf6 \o S_NL

\* C12: on Windows with a non-empty missing set the message holds the C-runtime block
\* exactly when a missing name starts with api-ms-win-crt or is vcruntime140.dll,
\* vcruntime140_1.dll or msvcp140.dll, holds the Media-Foundation block exactly when a
\* missing name is mf.dll, mfplat.dll, msmpeg2vdec.dll, evr.dll or avrt.dll, and ends
\* with the header of the full list followed by one line per missing name, whatever its
\* bucket.
C12_WindowsMessageBlocks ==
    (WindowsClassified /\ ProbeUnion # {}) =>
       LET message == WindowsMessage
           n       == LineCount(message)
           k       == Cardinality(ProbeUnion)
       IN  /\ includes(message, CrtBlock) <=> \E name \in ProbeUnion : InCrtBucket(name)
           /\ includes(message, MediaFoundationBlock) <=>
                 \E name \in ProbeUnion : InMediaFoundationBucket(name)
           /\ n >= k + 2
           /\ Line(message, n) = <<>>
           /\ Line(message, n - k - 1) = S_FullList
           /\ {Line(message, n - k - 1 + i) : i \in 1..k} =
                 {S_Indent4 \o name : name \in ProbeUnion}

C12_Witness ==
    /\ WindowsClassified
    /\ outcome.kind = "Error"
    /\ Range(missingDeps) = {S_vcruntime140, S_mf}
    /\ includes(outcome.message, CrtBlock)
    /\ includes(outcome.message, MediaFoundationBlock)

====
